---- MODULE Spec2Model ----
(***************************************************************************)
(* Request lifecycle and persistence contract of the students API          *)
(* (main.py): the table "estudiantes", the per-request session handed out  *)
(* by get_db, the five route handlers and the health probe.                *)
(*                                                                         *)
(* Every request runs in a slot.  A slot walks through the statements of   *)
(* its handler one store round trip at a time, so that requests of         *)
(* different slots interleave exactly where the code talks to the store.   *)
(***************************************************************************)
EXTENDS Integers, Sequences, FiniteSets, TLC

\* ---------------------------------------------------------------- bounds
\* Largest id the sequence behind the autoincrement column hands out.
MaxId == 2
\* Number of requests a behaviour serves.
MaxReq == 3
\* Number of requests a behaviour of the one-at-a-time client serves.
MaxSeqReq == 4

\* ------------------------------------------------------ program constants
\* nombre = Column(String(100)): VARCHAR(100) rejects longer values.
StrMax == 100
\* edad = Column(Integer): a 32 bit signed column.
Int32Max == 2147483647

\* ---------------------------------------------------------------- inputs
Slots == {"r1", "r2"}

Ana == <<"A", "n", "a">>
\* a name of StrMax + 1 characters
Largo == [k \in 1..(StrMax + 1) |-> "x"]
Names == {Ana, Largo}

\* ages within the column's range; the DataError path of the writes is driven
\* by the overlong name
Ages == {20, 21}

\* request bodies {nombre, edad}
Payloads == {<<Ana, 20>>, <<Ana, 21>>, <<Largo, 20>>}

\* path parameter id: an id is unknown until the sequence hands it out, and
\* again once its row is deleted
Ids == 1..MaxId

Ops == {"list", "get", "create", "update", "delete", "health"}

VARIABLES
    table,      \* rows of estudiantes, in heap order
    nextId,     \* next value of the id sequence
    up,         \* the store is reachable
    pc,         \* per slot: position of the request
    op,         \* per slot: the operation requested
    arg,        \* per slot: path parameter and body of the request
    est,        \* per slot: the ORM object the handler holds
    exc,        \* per slot: status of the HTTPException the handler raised
    status,     \* per slot: status code of the answer
    body,       \* per slot: body of the answer
    conn,       \* per slot: the session holds a pooled connection
    absent,     \* per slot: the handler's lookup ran and matched no row
    effect,     \* per slot: the request's commit changed the table
    dirty,      \* per slot: the row it wrote was rewritten or removed since
    seenUp,     \* per slot: the store was reachable when the probe ran
    late,       \* per slot: it arrived after a Delete of its id was confirmed
    deletedOK,  \* ids whose Delete was answered with the confirmation
    served      \* number of requests that have arrived

vars == <<table, nextId, up, pc, op, arg, est, exc, status, body,
          conn, absent, effect, dirty, seenUp, late, deletedOK, served>>

\* ----------------------------------------------------------------- values
NoExc == 0
NoRow == [id |-> 0, nombre |-> <<>>, edad |-> 0]
NoArg == [id |-> 0, nombre |-> <<>>, edad |-> 0]
NoBody == [kind |-> "none"]
ErrorBody == [kind |-> "error"]

EstudianteSinEdad(i, n, e) == [id |-> i, nombre |-> n, edad |-> 0]

\* class Estudiante: one row of the table
Estudiante(i, n, e) == [id |-> i, nombre |-> n, edad |-> e]

\* response_model=EstudianteResponse, from_attributes
EstudianteResponse(row) ==
    [kind |-> "estudiante", id |-> row.id, nombre |-> row.nombre, edad |-> row.edad]

\* the column types accept the value
NombreFits(n) == Len(n) <= StrMax
EdadFits(e) == e >= -Int32Max - 1 /\ e <= Int32Max

\* ------------------------------------------------------------ table access
RowIds(tbl) == {tbl[k].id : k \in 1..Len(tbl)}

\* db.query(Estudiante).filter(Estudiante.id == id).first()
Lookup(tbl, i) ==
    IF \E k \in 1..Len(tbl) : tbl[k].id = i
    THEN tbl[CHOOSE k \in 1..Len(tbl) : tbl[k].id = i]
    ELSE NoRow

WithoutId(tbl, i) == SelectSeq(tbl, LAMBDA r : r.id # i)

RECURSIVE SortedInsert(_, _)
SortedInsert(sorted, row) ==
    IF sorted = <<>> THEN <<row>>
    ELSE IF row.id <= Head(sorted).id THEN <<row>> \o sorted
    ELSE <<Head(sorted)>> \o SortedInsert(Tail(sorted), row)

RECURSIVE SortById(_)
SortById(tbl) ==
    IF tbl = <<>> THEN <<>>
    ELSE SortedInsert(SortById(Tail(tbl)), Head(tbl))

Unordered(tbl) == tbl

\* .order_by(Estudiante.id).all()
OrderById(tbl) == SortById(tbl)

\* ------------------------------------------------------------- the session
close_leak(s) == conn

\* db.close(): the connection goes back to the pool, an open transaction is
\* rolled back
close(s) == [conn EXCEPT ![s] = FALSE]

\* db.rollback() of the handlers: ends the transaction, releases the connection
rollback(s) == [conn EXCEPT ![s] = FALSE]

\* a session's first statement checks a connection out and begins a transaction
checkout(s) == [conn EXCEPT ![s] = TRUE]

\* requests that are past their commit and hold the row with id i
Holders(s, i) ==
    {t \in Slots \ {s} : /\ pc[t] \in {"refresh", "exit", "done"}
                         /\ op[t] \in {"create", "update"}
                         /\ est[t].id = i}

Touch(s, i) == [t \in Slots |-> IF t \in Holders(s, i) THEN TRUE ELSE dirty[t]]

\* the handler raises HTTPException(status_code=code) and leaves
Raise(s, code) ==
    /\ exc' = [exc EXCEPT ![s] = code]
    /\ pc' = [pc EXCEPT ![s] = "exit"]

Init ==
    /\ table = <<>>
    /\ nextId = 1
    /\ up = TRUE
    /\ pc = [s \in Slots |-> "idle"]
    /\ op = [s \in Slots |-> "none"]
    /\ arg = [s \in Slots |-> NoArg]
    /\ est = [s \in Slots |-> NoRow]
    /\ exc = [s \in Slots |-> NoExc]
    /\ status = [s \in Slots |-> 0]
    /\ body = [s \in Slots |-> NoBody]
    /\ conn = [s \in Slots |-> FALSE]
    /\ absent = [s \in Slots |-> FALSE]
    /\ effect = [s \in Slots |-> FALSE]
    /\ dirty = [s \in Slots |-> FALSE]
    /\ seenUp = [s \in Slots |-> FALSE]
    /\ late = [s \in Slots |-> FALSE]
    /\ deletedOK = {}
    /\ served = 0

\* the part of the request each operation reads
ArgOf(o, i, n, e) ==
    CASE o \in {"get", "delete"} -> [id |-> i, nombre |-> <<>>, edad |-> 0]
      [] o = "create" -> [id |-> 0, nombre |-> n, edad |-> e]
      [] o = "update" -> [id |-> i, nombre |-> n, edad |-> e]
      [] OTHER -> NoArg

FirstStep(o) ==
    CASE o \in {"list", "get", "update", "delete"} -> "select"
      [] o = "create" -> "commit"
      [] OTHER -> "probe"

\* inserts that have not reached the store yet
PendingInserts == Cardinality({t \in Slots : op[t] = "create" /\ pc[t] = "commit"})

\* A request arrives.  Depends(get_db) runs up to its yield: db = SessionLocal().
\* /health takes no session.
Arrive(s) ==
    /\ pc[s] = "idle"
    /\ served' = served + 1
    /\ \E o \in Ops, i \in Ids, p \in Payloads :
          /\ o = "create" => nextId + PendingInserts <= MaxId
          /\ op' = [op EXCEPT ![s] = o]
          /\ arg' = [arg EXCEPT ![s] = ArgOf(o, i, p[1], p[2])]
          /\ pc' = [pc EXCEPT ![s] = FirstStep(o)]
          /\ late' = [late EXCEPT ![s] = ArgOf(o, i, p[1], p[2]).id \in deletedOK]
    /\ UNCHANGED <<table, nextId, up, est, exc, status, body, conn,
                   absent, effect, dirty, seenUp, deletedOK>>

\* requests arrive at any time, also while others are in flight
get_db_enter(s) ==
    /\ served < MaxReq
    /\ Arrive(s)

\* no request is in flight
Quiet == \A t \in Slots : pc[t] \in {"idle", "done"}

\* a client that waits for each answer before it sends the next request
get_db_enter_seq(s) ==
    /\ Quiet
    /\ served < MaxSeqReq
    /\ Arrive(s)

\* GET /estudiantes/
get_estudiantes(s) ==
    /\ pc[s] = "select" /\ op[s] = "list"
    /\ IF up
       THEN /\ body' = [body EXCEPT ![s] =
                   [kind |-> "list",
                    rows |-> [k \in 1..Len(table) |->
                                 EstudianteResponse(OrderById(table)[k])]]]
            /\ conn' = checkout(s)
            /\ pc' = [pc EXCEPT ![s] = "exit"]
            /\ UNCHANGED exc
       ELSE /\ Raise(s, 500)
            /\ UNCHANGED <<body, conn>>
    /\ UNCHANGED <<table, nextId, up, op, arg, est, status, absent,
                   effect, dirty, seenUp, late, deletedOK, served>>

\* GET /estudiantes/{id}
get_estudiante(s) ==
    /\ pc[s] = "select" /\ op[s] = "get"
    /\ IF ~up
       THEN /\ Raise(s, 500)
            /\ UNCHANGED <<body, conn, est, absent>>
       ELSE LET r == Lookup(table, arg[s].id) IN
            /\ conn' = checkout(s)
            /\ IF r = NoRow
               THEN /\ Raise(s, 404)
                    /\ absent' = [absent EXCEPT ![s] = TRUE]
                    /\ UNCHANGED <<body, est>>
               ELSE /\ est' = [est EXCEPT ![s] = r]
                    /\ body' = [body EXCEPT ![s] = EstudianteResponse(r)]
                    /\ pc' = [pc EXCEPT ![s] = "exit"]
                    /\ UNCHANGED <<exc, absent>>
    /\ UNCHANGED <<table, nextId, up, op, arg, status, effect, dirty,
                   seenUp, late, deletedOK, served>>

\* POST /estudiantes/, lines 153-155: Estudiante(...), db.add, db.commit.
\* commit flushes the INSERT (the sequence hands out the id) and commits.
crear_commit(s) ==
    /\ pc[s] = "commit" /\ op[s] = "create"
    /\ IF ~up
       THEN /\ Raise(s, 500)
            /\ UNCHANGED <<table, nextId, est, effect>>
       ELSE IF ~(NombreFits(arg[s].nombre) /\ EdadFits(arg[s].edad))
       THEN \* DataError; whether nextval ran before the check is the store's choice
            /\ Raise(s, 500)
            /\ nextId' \in {nextId, nextId + 1}
            /\ UNCHANGED <<table, est, effect>>
       ELSE \E commitOk \in BOOLEAN :
            /\ nextId' = nextId + 1
            /\ IF commitOk
               THEN LET row == Estudiante(nextId, arg[s].nombre, arg[s].edad) IN
                    /\ table' = Append(table, row)
                    /\ est' = [est EXCEPT ![s] = row]
                    /\ effect' = [effect EXCEPT ![s] = TRUE]
                    /\ pc' = [pc EXCEPT ![s] = "refresh"]
                    /\ UNCHANGED exc
               ELSE /\ Raise(s, 500)
                    /\ UNCHANGED <<table, est, effect>>
    /\ conn' = rollback(s)
    /\ UNCHANGED <<up, op, arg, status, body, absent, dirty, seenUp, late,
                   deletedOK, served>>

\* db.refresh(obj) and the return of the handler (lines 156-158, 174-176):
\* re-reads the row by primary key; a row that is gone is an error
refresh(s) ==
    /\ pc[s] = "refresh"
    /\ IF ~up
       THEN /\ Raise(s, 500)
            /\ conn' = rollback(s)
            /\ UNCHANGED <<est, body>>
       ELSE LET r == Lookup(table, est[s].id) IN
            IF r = NoRow
            THEN /\ Raise(s, 500)
                 /\ conn' = rollback(s)
                 /\ UNCHANGED <<est, body>>
            ELSE /\ est' = [est EXCEPT ![s] = r]
                 /\ body' = [body EXCEPT ![s] = EstudianteResponse(r)]
                 /\ conn' = checkout(s)
                 /\ pc' = [pc EXCEPT ![s] = "exit"]
                 /\ UNCHANGED exc
    /\ UNCHANGED <<table, nextId, up, op, arg, status, absent, effect,
                   dirty, seenUp, late, deletedOK, served>>

crear_refresh(s) == op[s] = "create" /\ refresh(s)

\* lines 167-169 and 187-189: look the row up, 404 when there is none
select_or_404(s) ==
    /\ pc[s] = "select"
    /\ IF ~up
       THEN /\ Raise(s, 500)
            /\ conn' = rollback(s)
            /\ UNCHANGED <<est, absent>>
       ELSE LET r == Lookup(table, arg[s].id) IN
            /\ conn' = checkout(s)
            /\ IF r = NoRow
               THEN /\ Raise(s, 404)
                    /\ absent' = [absent EXCEPT ![s] = TRUE]
                    /\ UNCHANGED est
               ELSE /\ est' = [est EXCEPT ![s] = r]
                    /\ pc' = [pc EXCEPT ![s] = "commit"]
                    /\ UNCHANGED <<exc, absent>>
    /\ UNCHANGED <<table, nextId, up, op, arg, status, body, effect,
                   dirty, seenUp, late, deletedOK, served>>

modificar_select(s) == op[s] = "update" /\ select_or_404(s)

IncrementAttrs(obj, n, e) == [obj EXCEPT !.nombre = n, !.edad = obj.edad + e]

\* est.nombre = estudiante.nombre; est.edad = estudiante.edad
SetAttrs(obj, n, e) == [obj EXCEPT !.nombre = n, !.edad = e]

\* the flush writes the attributes whose value differs from the loaded one
ChangedCols(old, new) ==
    {c \in {"nombre", "edad"} : (IF c = "nombre" THEN old.nombre # new.nombre
                                                ELSE old.edad # new.edad)}

\* UPDATE estudiantes SET <cols> WHERE id = new.id, on the row as stored
Written(cur, new, cols) ==
    Estudiante(cur.id,
               IF "nombre" \in cols THEN new.nombre ELSE cur.nombre,
               IF "edad" \in cols THEN new.edad ELSE cur.edad)

KeepOldVersion(tbl, row) == Append(tbl, row)

\* the store replaces the row's version: the new one goes to the end of the heap
UpdateRow(tbl, row) == Append(WithoutId(tbl, row.id), row)

\* PUT /estudiantes/{id}, lines 171-173
modificar_commit(s) ==
    /\ pc[s] = "commit" /\ op[s] = "update"
    /\ LET new == SetAttrs(est[s], arg[s].nombre, arg[s].edad)
           cols == ChangedCols(est[s], new)
           cur == Lookup(table, est[s].id)
       IN
       IF ~up
       THEN /\ Raise(s, 500)
            /\ UNCHANGED <<table, effect, dirty>>
       ELSE IF cols = {}
       THEN \* nothing to flush: only the COMMIT goes to the store
            \E commitOk \in BOOLEAN :
            /\ IF commitOk
               THEN /\ pc' = [pc EXCEPT ![s] = "refresh"]
                    /\ UNCHANGED exc
               ELSE Raise(s, 500)
            /\ UNCHANGED <<table, effect, dirty>>
       ELSE IF \/ ("nombre" \in cols /\ ~NombreFits(new.nombre))
               \/ ("edad" \in cols /\ ~EdadFits(new.edad))
       THEN \* DataError
            /\ Raise(s, 500)
            /\ UNCHANGED <<table, effect, dirty>>
       ELSE IF cur = NoRow
       THEN \* the UPDATE matched 0 rows: StaleDataError
            /\ Raise(s, 500)
            /\ UNCHANGED <<table, effect, dirty>>
       ELSE \E commitOk \in BOOLEAN :
            IF commitOk
            THEN /\ table' = UpdateRow(table, Written(cur, new, cols))
                 /\ effect' = [effect EXCEPT ![s] = TRUE]
                 /\ dirty' = Touch(s, est[s].id)
                 /\ pc' = [pc EXCEPT ![s] = "refresh"]
                 /\ UNCHANGED exc
            ELSE /\ Raise(s, 500)
                 /\ UNCHANGED <<table, effect, dirty>>
    /\ conn' = rollback(s)
    /\ UNCHANGED <<nextId, up, op, arg, est, status, body, absent,
                   seenUp, late, deletedOK, served>>

modificar_refresh(s) == op[s] = "update" /\ refresh(s)

eliminar_select(s) == op[s] = "delete" /\ select_or_404(s)

\* DELETE /estudiantes/{id}, lines 191-194.  A DELETE that matches 0 rows is
\* a warning of the ORM, not an error: the commit goes on.
eliminar_commit(s) ==
    /\ pc[s] = "commit" /\ op[s] = "delete"
    /\ IF ~up
       THEN /\ Raise(s, 500)
            /\ UNCHANGED <<table, effect, dirty, body>>
       ELSE \E commitOk \in BOOLEAN :
            IF commitOk
            THEN /\ table' = WithoutId(table, est[s].id)
                 /\ effect' = [effect EXCEPT ![s] = est[s].id \in RowIds(table)]
                 /\ dirty' = IF est[s].id \in RowIds(table)
                             THEN Touch(s, est[s].id) ELSE dirty
                 /\ body' = [body EXCEPT ![s] = [kind |-> "deleted", id |-> arg[s].id]]
                 /\ pc' = [pc EXCEPT ![s] = "exit"]
                 /\ UNCHANGED exc
            ELSE /\ Raise(s, 500)
                 /\ UNCHANGED <<table, effect, dirty, body>>
    /\ conn' = rollback(s)
    /\ UNCHANGED <<nextId, up, op, arg, est, status, absent, seenUp, late,
                   deletedOK, served>>

\* The SQLAlchemy releases the imports of main.py run on (declarative_base is
\* imported from sqlalchemy.orm): 1.4 and 2.x.  main.py pins none.
SaMajors == {1, 2}

\* conn.execute("SELECT 1"): a plain string is executable up to SQLAlchemy 1.x;
\* from 2.0 on it raises ObjectNotExecutableError
StringExecutes(major) == major < 2

\* GET /health: engine.connect() in a with block, outside any session
health_check(s) ==
    /\ pc[s] = "probe" /\ op[s] = "health"
    /\ seenUp' = [seenUp EXCEPT ![s] = up]
    /\ \E major \in SaMajors :
       IF up /\ StringExecutes(major)
       THEN /\ status' = [status EXCEPT ![s] = 200]
            /\ body' = [body EXCEPT ![s] = [kind |-> "health", database |-> "connected"]]
       ELSE /\ status' = [status EXCEPT ![s] = 503]
            /\ body' = [body EXCEPT ![s] = [kind |-> "health", database |-> "disconnected"]]
    /\ pc' = [pc EXCEPT ![s] = "done"]
    /\ UNCHANGED <<table, nextId, up, op, arg, est, exc, conn, absent,
                   effect, dirty, late, deletedOK, served>>

\* except Exception of get_db: HTTPException is an Exception, so every
\* exception the handler lets out is caught here
Caught(e) == e # NoExc

\* get_db after its yield: the handler's exception is thrown in at the yield;
\* caught, it is answered by rollback and HTTPException(500); finally db.close()
get_db_exit(s) ==
    /\ pc[s] = "exit"
    /\ IF Caught(exc[s])
       THEN /\ status' = [status EXCEPT ![s] = 500]
            /\ body' = [body EXCEPT ![s] = ErrorBody]
            /\ UNCHANGED <<deletedOK>>
       ELSE /\ status' = [status EXCEPT ![s] = IF exc[s] = NoExc THEN 200 ELSE exc[s]]
            /\ body' = [body EXCEPT ![s] = IF exc[s] = NoExc THEN body[s] ELSE ErrorBody]
            /\ deletedOK' = IF op[s] = "delete" /\ exc[s] = NoExc
                            THEN deletedOK \cup {arg[s].id} ELSE deletedOK
    /\ conn' = close(s)
    /\ pc' = [pc EXCEPT ![s] = "done"]
    /\ UNCHANGED <<table, nextId, up, op, arg, est, exc, absent, effect,
                   dirty, seenUp, late, served>>

\* the answer has left; the slot is free for the next request
Respond(s) ==
    /\ pc[s] = "done"
    /\ pc' = [pc EXCEPT ![s] = "idle"]
    /\ op' = [op EXCEPT ![s] = "none"]
    /\ arg' = [arg EXCEPT ![s] = NoArg]
    /\ est' = [est EXCEPT ![s] = NoRow]
    /\ exc' = [exc EXCEPT ![s] = NoExc]
    /\ status' = [status EXCEPT ![s] = 0]
    /\ body' = [body EXCEPT ![s] = NoBody]
    /\ absent' = [absent EXCEPT ![s] = FALSE]
    /\ effect' = [effect EXCEPT ![s] = FALSE]
    /\ dirty' = [dirty EXCEPT ![s] = FALSE]
    /\ seenUp' = [seenUp EXCEPT ![s] = FALSE]
    /\ late' = [late EXCEPT ![s] = FALSE]
    /\ UNCHANGED <<table, nextId, up, conn, deletedOK, served>>

\* the store becomes unreachable, or reachable again
StoreFail ==
    /\ up
    /\ up' = FALSE
    /\ UNCHANGED <<table, nextId, pc, op, arg, est, exc, status, body,
                   conn, absent, effect, dirty, seenUp, late, deletedOK, served>>

StoreRecover ==
    /\ ~up
    /\ up' = TRUE
    /\ UNCHANGED <<table, nextId, pc, op, arg, est, exc, status, body,
                   conn, absent, effect, dirty, seenUp, late, deletedOK, served>>

Next ==
    \/ \E s \in Slots : get_db_enter(s)
    \/ \E s \in Slots : get_estudiantes(s)
    \/ \E s \in Slots : get_estudiante(s)
    \/ \E s \in Slots : crear_commit(s)
    \/ \E s \in Slots : crear_refresh(s)
    \/ \E s \in Slots : modificar_select(s)
    \/ \E s \in Slots : modificar_commit(s)
    \/ \E s \in Slots : modificar_refresh(s)
    \/ \E s \in Slots : eliminar_select(s)
    \/ \E s \in Slots : eliminar_commit(s)
    \/ \E s \in Slots : health_check(s)
    \/ \E s \in Slots : get_db_exit(s)
    \/ \E s \in Slots : Respond(s)
    \/ StoreFail
    \/ StoreRecover

Spec == Init /\ [][Next]_vars

NextSeq ==
    \/ \E s \in Slots : get_db_enter_seq(s)
    \/ \E s \in Slots : get_estudiantes(s)
    \/ \E s \in Slots : get_estudiante(s)
    \/ \E s \in Slots : crear_commit(s)
    \/ \E s \in Slots : crear_refresh(s)
    \/ \E s \in Slots : modificar_select(s)
    \/ \E s \in Slots : modificar_commit(s)
    \/ \E s \in Slots : modificar_refresh(s)
    \/ \E s \in Slots : eliminar_select(s)
    \/ \E s \in Slots : eliminar_commit(s)
    \/ \E s \in Slots : health_check(s)
    \/ \E s \in Slots : get_db_exit(s)
    \/ \E s \in Slots : Respond(s)
    \/ StoreFail
    \/ StoreRecover

SpecSeq == Init /\ [][NextSeq]_vars

\* ------------------------------------------------------------------ claims
Done(s) == pc[s] = "done"

\* C1: a Get, Update or Delete whose id matches no persisted student is
\* answered 404, over the whole request path, get_db included.
C1_UnknownIdAnswers404 ==
    \A s \in Slots :
        (Done(s) /\ op[s] \in {"get", "update", "delete"} /\ absent[s])
            => status[s] = 404

\* C2: a Get of the id a successful Create returned, with no Update or Delete
\* of that row in between, returns the record Create returned, and that record
\* is {id, name, age} of the request.
C2_CreateThenGet ==
    \A t \in Slots : \A s \in Slots :
        (/\ Done(t) /\ op[t] = "create" /\ status[t] = 200 /\ ~dirty[t]
         /\ Done(s) /\ op[s] = "get" /\ status[s] = 200
         /\ arg[s].id = body[t].id)
            => /\ body[s] = body[t]
               /\ body[t] = [kind |-> "estudiante", id |-> est[t].id,
                             nombre |-> arg[t].nombre, edad |-> arg[t].edad]

C2_Witness ==
    \E t \in Slots : \E s \in Slots :
        /\ Done(t) /\ op[t] = "create" /\ status[t] = 200 /\ ~dirty[t]
        /\ Done(s) /\ op[s] = "get" /\ status[s] = 200
        /\ arg[s].id = body[t].id
        /\ body[s].edad = 21

\* C3: a Get that arrives after Delete(i) was confirmed, and whose lookup
\* finds no row, is answered 404.
C3_DeletedIdAnswers404 ==
    \A s \in Slots :
        (Done(s) /\ op[s] = "get" /\ late[s] /\ absent[s]) => status[s] = 404

\* C4: a successful List returns the rows persisted at that moment, each once,
\* in strictly ascending order of id.
C4_ListOrdered ==
    [][\A s \in Slots :
          (pc[s] = "select" /\ op[s] = "list" /\ pc'[s] = "exit" /\ exc'[s] = NoExc)
              => LET rows == body'[s].rows IN
                 /\ Len(rows) = Len(table)
                 /\ \A k \in 1..Len(table) : \E j \in 1..Len(rows) :
                        /\ rows[j].id = table[k].id
                        /\ rows[j].nombre = table[k].nombre
                        /\ rows[j].edad = table[k].edad
                 /\ \A j \in 1..(Len(rows) - 1) : rows[j].id < rows[j + 1].id]_vars

C4_Witness ==
    \E s \in Slots :
        /\ op[s] = "list" /\ pc[s] = "exit" /\ exc[s] = NoExc
        /\ Len(table) = 2 /\ table[1].id > table[2].id
        /\ Len(body[s].rows) = 2

C6_HealthReflectsReachability ==
    \A s \in Slots :
        (Done(s) /\ op[s] = "health")
            => IF seenUp[s]
               THEN status[s] = 200 /\ body[s].database = "connected"
               ELSE status[s] = 503 /\ body[s].database = "disconnected"

\* C7: when a request completes its session holds no connection, whatever the
\* handler did, and the exit of get_db commits nothing.
C7_SessionReleased ==
    [][\A s \in Slots :
          /\ pc'[s] \in {"idle", "done"} => ~conn'[s]
          /\ (pc[s] = "exit" /\ Done(s)') => table' = table]_vars

C7_Witness ==
    /\ \A s \in Slots : Done(s) /\ ~conn[s]
    /\ \E s \in Slots : op[s] = "get" /\ status[s] = 200
    /\ \E s \in Slots : op[s] = "delete" /\ exc[s] = 404

\* C8: a Create, Update or Delete answered 500 has no committed effect.
C8_FailedWriteNoEffect ==
    \A s \in Slots :
        (Done(s) /\ op[s] \in {"create", "update", "delete"} /\ status[s] = 500)
            => ~effect[s]

\* C9: every persisted row has an id, a name and an age of the column types,
\* no two rows share an id, a new id is the one the sequence assigns, and an
\* Update never changes the ids of the table.
RowOk(r) ==
    /\ DOMAIN r = {"id", "nombre", "edad"}
    /\ r.id \in 1..MaxId
    /\ r.nombre \in Names /\ NombreFits(r.nombre)
    /\ r.edad \in Ages /\ EdadFits(r.edad)

C9_DataInvariant ==
    [][/\ \A k \in 1..Len(table') : RowOk(table'[k])
       /\ Cardinality(RowIds(table')) = Len(table')
       /\ RowIds(table') \subseteq RowIds(table) \cup {nextId}
       /\ \A s \in Slots :
             (op[s] = "update" /\ pc[s] = "commit" /\ pc'[s] = "refresh")
                 => RowIds(table') = RowIds(table)]_vars

C9_Witness ==
    /\ Len(table) = 2
    /\ \E s \in Slots : op[s] = "update" /\ effect[s] /\ pc[s] = "refresh"

\* C10: of two Delete requests for one id at most one is answered 200.
C10_AtMostOneDeleteSucceeds ==
    \A s \in Slots : \A t \in Slots \ {s} :
        ~(/\ Done(s) /\ op[s] = "delete" /\ status[s] = 200
          /\ Done(t) /\ op[t] = "delete" /\ status[t] = 200
          /\ arg[s].id = arg[t].id)

====
